---- MODULE Spec2Model ----
(***************************************************************************)
(* The agent turn loop of mcphost: history pruning (pruneMessages), the    *)
(* completion retry loop and the tool dispatch cycle (MCPSession.RunPrompt) *)
(* and the interaction loop that drives them (runMCPHost).                  *)
(***************************************************************************)
EXTENDS Integers, Sequences, FiniteSets, TLC

(***************************************************************************)
(* Bounds of the model.                                                    *)
(***************************************************************************)
\* longest history given to pruneMessages in SpecPrune
MaxLen == 3
\* largest --message-window value tried
MaxWindow == 2
\* tool-call ids the provider hands out in one session (and the ids of SpecPrune)
MaxId == 2
\* most completions the provider returns in one session
MaxCompletions == 3
\* most times in one session the spinner of the callback fails before it runs its action
MaxSpinnerFailures == 1

(***************************************************************************)
(* Program constants (durations in seconds).                               *)
(***************************************************************************)
initialBackoff == 1
maxBackoff == 30
maxRetries == 5

VARIABLES
  messageWindow,  \* the --message-window flag
  messages,       \* the history: runMCPHost's `messages`, RunPrompt's *messages
  pc,             \* where the program is
  pruned,         \* SpecPrune: pruneMessages(messages)
  repruned,       \* SpecPrune: pruneMessages(pruned)
  prompt,         \* RunPrompt's prompt parameter ("" in a recursive call)
  message,        \* RunPrompt's `message` (NoMessage is nil)
  err,            \* RunPrompt's `err`
  backoff,        \* RunPrompt's `backoff`
  retries,        \* RunPrompt's `retries`
  messageContent, \* RunPrompt's `messageContent`
  toolResults,    \* RunPrompt's `toolResults`
  idx,            \* position of the tool-call loop in message.GetToolCalls()
  nextId,         \* the next unused tool-call id of the provider
  completions,    \* completions the provider has returned in this session
  spinnerFailures,\* times the spinner of the callback failed to run its action
  round,          \* RunPrompt invocations of the current turn (1 = the outer call)
  ret,            \* what the outer RunPrompt returned to runMCPHost
  cancelled,      \* the ctx given to RunPrompt: NotCancelled, or where the program was
                  \* when ctx was cancelled
  entry,          \* the history when the current invocation entered its retry loop
  attempts,       \* the retry loop that is running or ended in an error: what each
                  \* pass got from the callback ("overloaded", "other", "notrun")
  sleeps,         \* the same retry loop: the durations given to time.Sleep, in order
  invoked,        \* this invocation: ids of the tool calls given to CallTool, in order
  outcomes,       \* this invocation: how each tool call processed so far ended
  events,         \* this invocation: the callback invocations other than those of
                  \* MODE_CREATE_MESSAGE, in order
  last            \* record of the invocation that has just ended (NoRound otherwise)

progVars == <<messageWindow, messages, pc, pruned, repruned, prompt, message, err,
              backoff, retries, messageContent, toolResults, idx, nextId,
              completions, spinnerFailures, round, ret, cancelled>>
obsVars == <<entry, attempts, sleeps, invoked, outcomes, events, last>>
vars == <<progVars, obsVars>>

(***************************************************************************)
(* history.ContentBlock and history.HistoryMessage.  A block keeps its     *)
(* Type, its ID (tool_use) or ToolUseID (tool_result) in `id`, and its     *)
(* text; a message keeps Role and Content.                                 *)
(***************************************************************************)
TextBlock(t) == [type |-> "text", id |-> 0, text |-> t]
ToolUseBlock(i) == [type |-> "tool_use", id |-> i, text |-> ""]
ToolResultBlock(i, t) == [type |-> "tool_result", id |-> i, text |-> t]
HistoryMessage(r, c) == [Role |-> r, Content |-> c]

(***************************************************************************)
(* pruneMessages                                                           *)
(***************************************************************************)
\* a slip: the slice drops the first messageWindow messages instead of keeping the last
KeepRecentFromHead(msgs) == SubSeq(msgs, messageWindow + 1, Len(msgs))

\* a slip: the slice starts one message early
KeepRecentOneMore(msgs) == SubSeq(msgs, Len(msgs) - messageWindow, Len(msgs))

\* the window slice: messages[len(messages)-messageWindow:]
KeepRecent(msgs) == SubSeq(msgs, Len(msgs) - messageWindow + 1, Len(msgs))

\* the ids of the blocks of one type in a sequence of messages
BlockIds(msgs, type) ==
  UNION { { msgs[i].Content[j].id :
              j \in { k \in 1..Len(msgs[i].Content) : msgs[i].Content[k].type = type } } :
          i \in 1..Len(msgs) }

\* first pass: the ids of the tool_use blocks of the kept messages
toolUseIds(msgs) == BlockIds(msgs, "tool_use")

\* first pass: the tool_use ids the tool_result blocks of the kept messages name
toolResultIds(msgs) == BlockIds(msgs, "tool_result")

\* a slip: a tool_use block is looked up in the ids of the tool_use blocks
KeepBlockUseInUses(block, useIds, resultIds) ==
  IF block.type = "tool_use" THEN block.id \in useIds
  ELSE IF block.type = "tool_result" THEN block.id \in useIds
  ELSE TRUE

\* second pass, per block: keep
KeepBlock(block, useIds, resultIds) ==
  IF block.type = "tool_use" THEN block.id \in resultIds
  ELSE IF block.type = "tool_result" THEN block.id \in useIds
  ELSE TRUE

\* second pass, per message: prunedBlocks
prunedBlocks(msg, useIds, resultIds) ==
  SelectSeq(msg.Content, LAMBDA b : KeepBlock(b, useIds, resultIds))

hasTextBlock(msg) == \E j \in 1..Len(msg.Content) : msg.Content[j].type = "text"

\* a slip: the tests of lines 198-199 and 207 are left out
KeepMessageAlways(msg, blocks) == TRUE

\* second pass, per message: is the message appended to prunedMessages
KeepMessage(msg, blocks) ==
  /\ \/ (Len(blocks) > 0 /\ msg.Role = "assistant")
     \/ msg.Role # "assistant"
  /\ (Len(blocks) > 0 \/ hasTextBlock(msg))

RECURSIVE FilterMessages(_, _, _)
FilterMessages(msgs, useIds, resultIds) ==
  IF msgs = <<>> THEN <<>>
  ELSE LET msg == Head(msgs)
           blocks == prunedBlocks(msg, useIds, resultIds)
           rest == FilterMessages(Tail(msgs), useIds, resultIds)
       IN IF KeepMessage(msg, blocks)
          THEN <<HistoryMessage(msg.Role, blocks)>> \o rest
          ELSE rest

\* a slip: no early return, a short history goes through the two passes as well
pruneMessagesAlwaysFilters(msgs) ==
  LET kept == IF Len(msgs) <= messageWindow THEN msgs ELSE KeepRecent(msgs)
  IN FilterMessages(kept, toolUseIds(kept), toolResultIds(kept))

pruneMessages(msgs) ==
  IF Len(msgs) <= messageWindow THEN msgs
  ELSE LET kept == KeepRecent(msgs)
       IN FilterMessages(kept, toolUseIds(kept), toolResultIds(kept))

(***************************************************************************)
(* Values of the variables of MCPSession.RunPrompt.                        *)
(***************************************************************************)
\* the callback modes (iota)
MODE_USER_PROMPT == 0
MODE_CREATE_MESSAGE == 1
MODE_ASSISTANT_MESSAGE == 2
MODE_RUN_TOOL == 3
MODE_ERROR == 4

\* a nil llm.Message
NoMessage == [content |-> "", toolCalls |-> <<>>, isNil |-> TRUE]
\* no invocation has ended yet
NoRound == [kind |-> "none", round |-> 0, prompt |-> "", message |-> NoMessage,
            entry |-> <<>>, after |-> <<>>, invoked |-> <<>>, outcomes |-> <<>>,
            events |-> <<>>, ret |-> "none", retried |-> FALSE]

\* ctx is not done
NotCancelled == [at |-> "none", round |-> 0, idx |-> 0, attempts |-> 0]

\* the state of the locals when RunPrompt is entered (lines 572-575, 623-626)
LocalsAtEntry ==
  /\ message = NoMessage
  /\ err = "nil"
  /\ backoff = initialBackoff
  /\ retries = 0
  /\ messageContent = <<>>
  /\ toolResults = <<>>
  /\ idx = 0

\* runMCPHost before its interaction loop: messages := make([]HistoryMessage, 0)
HostInit ==
  /\ messages = <<>>
  /\ prompt = ""
  /\ LocalsAtEntry
  /\ nextId = 1
  /\ completions = 0
  /\ spinnerFailures = 0
  /\ round = 0
  /\ ret = "none"
  /\ cancelled = NotCancelled
  /\ entry = <<>>
  /\ attempts = <<>>
  /\ sleeps = <<>>
  /\ invoked = <<>>
  /\ outcomes = <<>>
  /\ events = <<>>
  /\ last = NoRound

(***************************************************************************)
(* SpecPrune: pruneMessages applied to every history of at most MaxLen     *)
(* messages of the shapes RunPrompt appends (a user message with one text  *)
(* block; an assistant message with an optional text block and tool_use    *)
(* blocks; a tool message with one tool_result block), and applied again   *)
(* to its own result.                                                      *)
(***************************************************************************)
Ids == 1..MaxId

RECURSIVE AscendingBlocks(_, _)
\* the tool_use blocks of the ids in `ids`, in ascending order of id, from id n on
AscendingBlocks(ids, n) ==
  IF n > MaxId THEN <<>>
  ELSE (IF n \in ids THEN <<ToolUseBlock(n)>> ELSE <<>>) \o AscendingBlocks(ids, n + 1)

UserMessages == { HistoryMessage("user", <<TextBlock("prompt")>>) }
AssistantMessages ==
  { HistoryMessage("assistant", t \o AscendingBlocks(ids, 1)) :
      t \in { <<>>, <<TextBlock("answer")>> }, ids \in SUBSET Ids }
ToolMessages == { HistoryMessage("tool", <<ToolResultBlock(i, "result")>>) : i \in Ids }
MessageShapes == UserMessages \cup AssistantMessages \cup ToolMessages

Histories == UNION { [1..n -> MessageShapes] : n \in 0..MaxLen }

PruneInit ==
  /\ messageWindow \in 1..MaxWindow
  /\ messages \in Histories
  /\ pc = "input"
  /\ pruned = <<>>
  /\ repruned = <<>>
  /\ prompt = ""
  /\ LocalsAtEntry
  /\ nextId = 1
  /\ completions = 0
  /\ spinnerFailures = 0
  /\ round = 0
  /\ ret = "none"
  /\ cancelled = NotCancelled
  /\ entry = <<>>
  /\ attempts = <<>>
  /\ sleeps = <<>>
  /\ invoked = <<>>
  /\ outcomes = <<>>
  /\ events = <<>>
  /\ last = NoRound

\* pruned := pruneMessages(messages)
Prune ==
  /\ pc = "input"
  /\ pruned' = pruneMessages(messages)
  /\ pc' = "pruned"
  /\ UNCHANGED <<messageWindow, messages, repruned, prompt, message, err, backoff,
                 retries, messageContent, toolResults, idx, nextId, completions,
                 spinnerFailures, round, ret, cancelled, obsVars>>

\* repruned := pruneMessages(pruned)
PruneAgain ==
  /\ pc = "pruned"
  /\ repruned' = pruneMessages(pruned)
  /\ pc' = "repruned"
  /\ UNCHANGED <<messageWindow, messages, pruned, prompt, message, err, backoff,
                 retries, messageContent, toolResults, idx, nextId, completions,
                 spinnerFailures, round, ret, cancelled, obsVars>>

PruneNext == Prune \/ PruneAgain

SpecPrune == PruneInit /\ [][PruneNext]_vars

(***************************************************************************)
(* Tool names.  A name is a sequence of characters, so that strings.Split  *)
(* is computed on it.                                                      *)
(***************************************************************************)
\* the separator "__"
Separator == <<"_", "_">>

\* does sep occur in s at position i
OccursAt(s, sep, i) ==
  /\ i + Len(sep) - 1 <= Len(s)
  /\ \A k \in 1..Len(sep) : s[i + k - 1] = sep[k]

RECURSIVE SplitFrom(_, _, _, _)
\* strings.Split from position i on, with `cur` the part read so far
SplitFrom(s, sep, cur, i) ==
  IF i > Len(s) THEN <<cur>>
  ELSE IF OccursAt(s, sep, i)
       THEN <<cur>> \o SplitFrom(s, sep, <<>>, i + Len(sep))
       ELSE SplitFrom(s, sep, Append(cur, s[i]), i + 1)

\* strings.Split(s, sep), sep not empty
Split(s, sep) == SplitFrom(s, sep, <<>>, 1)

\* the keys of ms.MCPClients: one connected server, "s"
MCPClients == { <<"s">> }

\* the names the provider puts in its tool calls:
\* "s__t", "n", "s__t__u", "x__t" (no such server) and "s__" (empty tool name)
ToolNames ==
  { <<"s", "_", "_", "t">>,
    <<"n">>,
    <<"s", "_", "_", "t", "_", "_", "u">>,
    <<"x", "_", "_", "t">>,
    <<"s", "_", "_">> }

\* the messages Provider.CreateMessage can return when `free` is the next unused id:
\* text or none, and tool calls with fresh ids
ProviderMessages(free) ==
  { [content |-> c,
     toolCalls |-> [j \in DOMAIN names |-> [id |-> free + j - 1, name |-> names[j]]],
     isNil |-> FALSE] :
      c \in {"", "answer"},
      names \in UNION { [1..n -> ToolNames] : n \in 0..(MaxId - free + 1) } }

\* what one run of the action of lines 585-592 can leave in (message, err)
ProviderResults(free) ==
  { [kind |-> "overloaded", msg |-> NoMessage], [kind |-> "other", msg |-> NoMessage] }
    \cup { [kind |-> "ok", msg |-> m] : m \in ProviderMessages(free) }

\* the callback returned without having run the action it was given
NotRun == [kind |-> "notrun", msg |-> NoMessage]

(***************************************************************************)
(* The retry loop of RunPrompt (lines 584-621).                            *)
(***************************************************************************)
\* a slip: every error is taken for an overload
IsOverloadedAnyError(e) == e # "nil"

\* strings.Contains(err.Error(), "overloaded_error")
IsOverloaded(e) == e = "overloaded"

\* a slip: > for >=
RetriesExhaustedLate(r) == r > maxRetries

\* retries >= maxRetries
RetriesExhausted(r) == r >= maxRetries

\* backoff *= 2; if backoff > maxBackoff { backoff = maxBackoff }
NextBackoff(b) == IF b * 2 > maxBackoff THEN maxBackoff ELSE b * 2

\* a slip: the assistant message is appended before the error is looked at
HistoryOnErrorAppended(msgs, content) == Append(msgs, HistoryMessage("assistant", content))

\* the history RunPrompt leaves when it returns the error of a failed completion
HistoryOnError(msgs, content) == msgs

(***************************************************************************)
(* The end of an invocation of RunPrompt (lines 745-762).                  *)
(***************************************************************************)
\* a slip: the collected results are appended as the blocks of one tool message
ToolResultMessagesBatched(results) ==
  IF results = <<>> THEN <<>> ELSE <<HistoryMessage("tool", results)>>

\* a slip: the tool messages are appended last result first
ToolResultMessagesReversed(results) ==
  [i \in 1..Len(results) |-> HistoryMessage("tool", <<results[Len(results) + 1 - i]>>)]

\* lines 751-756: one tool message per collected result, in the order collected
ToolResultMessages(results) ==
  [i \in 1..Len(results) |-> HistoryMessage("tool", <<results[i]>>)]

\* line 746: message.GetRole().  The providers' messages (pkg/llm) are not part of
\* the source at hand; the role is the one the specification gives the message built
\* from a completion.
GetRole == "assistant"

\* a slip: the tool messages are appended before the assistant message
AppendRoundResultsFirst(msgs, content, results) ==
  Append(msgs \o ToolResultMessages(results), HistoryMessage(GetRole, content))

\* a slip: the history is trimmed to the window before the appends
AppendRoundOnPruned(msgs, content, results) ==
  Append(pruneMessages(msgs), HistoryMessage(GetRole, content)) \o ToolResultMessages(results)

\* lines 745-756: the appends to *messages
AppendRound(msgs, content, results) ==
  Append(msgs, HistoryMessage(GetRole, content)) \o ToolResultMessages(results)

\* a slip: >= for >
RecursesAlways(results) == Len(results) >= 0

\* line 750: the condition of the recursive call
Recurses(results) == Len(results) > 0

\* the record of an invocation as it ends; `retried` tells whether its retry loop
\* had slept
RoundRecord(kind, msg, after, inv, outs, evs, r) ==
  [kind |-> kind, round |-> round, prompt |-> prompt, message |-> msg,
   entry |-> entry, after |-> after, invoked |-> inv, outcomes |-> outs,
   events |-> evs, ret |-> r, retried |-> retries > 0]

\* a slip: retries and backoff are kept from one invocation to the next
EnterLocalsKeepsRetries ==
  /\ message' = NoMessage
  /\ err' = "nil"
  /\ backoff' = backoff
  /\ retries' = retries
  /\ messageContent' = <<>>
  /\ toolResults' = <<>>
  /\ idx' = 0
  /\ attempts' = <<>>
  /\ sleeps' = <<>>
  /\ invoked' = <<>>
  /\ outcomes' = <<>>

\* the locals of a fresh invocation (lines 572-575, 623-626 are declarations of
\* RunPrompt, so each call has its own)
EnterLocals ==
  /\ message' = NoMessage
  /\ err' = "nil"
  /\ backoff' = initialBackoff
  /\ retries' = 0
  /\ messageContent' = <<>>
  /\ toolResults' = <<>>
  /\ idx' = 0
  /\ attempts' = <<>>
  /\ sleeps' = <<>>
  /\ invoked' = <<>>
  /\ outcomes' = <<>>

\* lines 745-762, reached with the assistant content and the tool results of the round:
\* the appends, then the recursive call RunPrompt(ctx, "", ...) or the return of nil
EndRound(msg, content, results, inv, outs, evs) ==
  LET after == AppendRound(messages, content, results)
  IN /\ messages' = after
     /\ EnterLocals
     /\ IF Recurses(results)
        THEN /\ pc' = "create"
             /\ prompt' = ""
             /\ round' = round + 1
             /\ ret' = "running"
             /\ entry' = after
             /\ events' = <<>>
             /\ last' = RoundRecord("recursed", msg, after, inv, outs, evs, "running")
        ELSE /\ pc' = "prompt"
             /\ ret' = "nil"
             /\ UNCHANGED <<prompt, round, entry>>
             /\ events' = <<>>
             /\ last' = RoundRecord("settled", msg, after, inv, outs, evs, "nil")

\* RunPrompt returns error e from its retry loop, and runMCPHost returns it (line 373)
ReturnError(e, msg, errv, atts, evs) ==
  /\ pc' = "exit"
  /\ ret' = e
  /\ messages' = HistoryOnError(messages, messageContent)
  /\ message' = msg
  /\ err' = errv
  /\ attempts' = atts
  /\ events' = evs
  /\ last' = RoundRecord("failed", msg, messages', invoked, outcomes, evs, e)
  /\ UNCHANGED <<prompt, backoff, retries, messageContent, toolResults, idx, round,
                 entry, sleeps, invoked, outcomes, nextId, completions>>

\* a nil dereference ends the program
Panic(msg, errv, atts, inv, outs, evs) ==
  /\ pc' = "panic"
  /\ ret' = "panic"
  /\ message' = msg
  /\ err' = errv
  /\ attempts' = atts
  /\ invoked' = inv
  /\ outcomes' = outs
  /\ events' = evs
  /\ last' = RoundRecord("panic", msg, messages, inv, outs, evs, "panic")
  /\ UNCHANGED <<messages, prompt, backoff, retries, messageContent, toolResults, idx,
                 round, entry, sleeps, nextId, completions>>

(***************************************************************************)
(* runMCPHost: the interaction loop (lines 274-375).                       *)
(***************************************************************************)
Init ==
  /\ messageWindow \in 1..MaxWindow
  /\ pc = "prompt"
  /\ pruned = <<>>
  /\ repruned = <<>>
  /\ HostInit

\* what a call of the callback can return: nil or an error
CallbackReturns == {"nil", "error"}

\* a slip: RunPrompt goes on only when its callback returned nil
ProceedsOnNil(c) == c = "nil"

\* lines 559, 593, 629, 692, 701: every call of the callback is an expression
\* statement; RunPrompt goes on whatever value c the callback returned
Proceeds(c) == TRUE

\* lines 314-316: if len(messages) > 0 { messages = pruneMessages(messages) }
PruneBeforeTurn(msgs) == IF Len(msgs) > 0 THEN pruneMessages(msgs) ELSE msgs

\* The user enters a prompt (not empty, not a slash command): runMCPHost prunes the
\* history and calls RunPrompt, which notifies the callback and appends the user
\* message (lines 558-570), then enters its retry loop.  The callback returns c.
UserPromptReturning(c) ==
  /\ pc = "prompt"
  /\ Proceeds(c)
  /\ LET history == Append(PruneBeforeTurn(messages),
                           HistoryMessage("user", <<TextBlock("prompt")>>))
     IN /\ messages' = history
        /\ entry' = history
  /\ prompt' = "prompt"
  /\ EnterLocals
  /\ pc' = "create"
  /\ round' = 1
  /\ ret' = "running"
  /\ events' = <<[mode |-> MODE_USER_PROMPT, id |-> 0]>>
  /\ last' = NoRound
  /\ UNCHANGED <<messageWindow, pruned, repruned, nextId, completions,
                 spinnerFailures, cancelled>>

\* lines 325-329, 368: the callback of runMCPHost returns nil in MODE_USER_PROMPT
UserPrompt == UserPromptReturning("nil")

\* The user aborts the prompt form (lines 287-292): runMCPHost returns nil.
UserAbort ==
  /\ pc = "prompt"
  /\ pc' = "exit"
  /\ last' = NoRound
  /\ UNCHANGED <<messageWindow, messages, pruned, repruned, prompt, message, err,
                 backoff, retries, messageContent, toolResults, idx, nextId,
                 completions, spinnerFailures, round, ret, cancelled, entry, attempts,
                 sleeps, invoked, outcomes, events>>

(***************************************************************************)
(* RunPrompt: one pass of the retry loop (lines 584-621) and, when the     *)
(* completion succeeded, lines 623-637.                                    *)
(***************************************************************************)
\* lines 631-637: the text block of the assistant message
TextContent(msg) == IF msg.content # "" THEN <<TextBlock(msg.content)>> ELSE <<>>

\* the callback returns c to the calls of lines 593 and 629
CreateMessageReturning(c) ==
  /\ pc = "create"
  /\ completions < MaxCompletions
  /\ Proceeds(c)
  /\ \E r \in ProviderResults(nextId) \cup {NotRun} :
       LET ran  == r.kind # "notrun"
           msg  == IF ran THEN r.msg ELSE message
           errv == IF ~ran THEN err ELSE IF r.kind = "ok" THEN "nil" ELSE r.kind
           atts == Append(attempts, r.kind)
           evs  == events
           evs2 == Append(evs, [mode |-> MODE_ASSISTANT_MESSAGE, id |-> 0])
       IN /\ ~ran => spinnerFailures < MaxSpinnerFailures
          /\ spinnerFailures' = IF ran THEN spinnerFailures ELSE spinnerFailures + 1
          /\ IF errv # "nil"
             THEN IF IsOverloaded(errv)
                  THEN IF RetriesExhausted(retries)
                       THEN ReturnError("overloaded_terminal", msg, errv, atts, evs)
                       ELSE /\ pc' = "sleep"
                            /\ message' = msg
                            /\ err' = errv
                            /\ attempts' = atts
                            /\ events' = evs
                            /\ last' = NoRound
                            /\ UNCHANGED <<messages, prompt, backoff, retries,
                                           messageContent, toolResults, idx, nextId,
                                           completions, round, ret, entry, sleeps,
                                           invoked, outcomes>>
                  ELSE ReturnError(errv, msg, errv, atts, evs)
             ELSE IF msg.isNil
                  THEN Panic(msg, errv, atts, invoked, outcomes, evs)
                  ELSE /\ completions' = completions + 1
                       /\ nextId' = nextId + Len(msg.toolCalls)
                       /\ IF Len(msg.toolCalls) = 0
                          THEN EndRound(msg, TextContent(msg), <<>>, <<>>, <<>>, evs2)
                          ELSE /\ pc' = "tools"
                               /\ message' = msg
                               /\ err' = errv
                               /\ messageContent' = TextContent(msg)
                               /\ toolResults' = <<>>
                               /\ idx' = 1
                               /\ attempts' = <<>>
                               /\ sleeps' = <<>>
                               /\ events' = evs2
                               /\ last' = NoRound
                               /\ UNCHANGED <<messages, prompt, backoff, retries, round,
                                              ret, entry, invoked, outcomes>>
  /\ UNCHANGED <<messageWindow, pruned, repruned, cancelled>>

\* lines 335-349: the callback of runMCPHost returns nil, or in
\* MODE_ASSISTANT_MESSAGE the error of updateRenderer
CreateMessage == \E c \in CallbackReturns : CreateMessageReturning(c)

\* lines 608-614: time.Sleep(backoff) returns; the backoff doubles up to the cap
Sleep ==
  /\ pc = "sleep"
  /\ sleeps' = Append(sleeps, backoff)
  /\ backoff' = NextBackoff(backoff)
  /\ retries' = retries + 1
  /\ pc' = "create"
  /\ UNCHANGED <<messageWindow, messages, pruned, repruned, prompt, message, err,
                 messageContent, toolResults, idx, nextId, completions,
                 spinnerFailures, round, ret, cancelled, entry, attempts, invoked,
                 outcomes, events, last>>

(***************************************************************************)
(* RunPrompt: one pass of the tool-call loop (lines 640-743) and, after    *)
(* the last tool call, the end of the invocation (lines 745-762).          *)
(***************************************************************************)
\* a slip: only names with fewer than two parts are skipped
ValidToolNameAtLeastTwo(parts) == Len(parts) >= 2

\* line 661: len(parts) != 2 skips the call
ValidToolName(parts) == Len(parts) = 2

\* line 670: mcpClient, ok := ms.MCPClients[serverName]
ServerFound(serverName) == serverName \in MCPClients

\* lines 350-357 of the callback of runMCPHost: an empty tool name returns before the
\* action is run; otherwise the spinner runs it, or fails without having run it
CallbackRunsTool(toolName, spinnerRuns) == toolName # <<>> /\ spinnerRuns

\* lines 687-690: is the context given to CallTool done when ctx is?  It is
\* context.Background(), which is never done.
CallToolContextDone(ctx) == FALSE

\* a slip: the error is reported to the callback and no block is collected
ErrorResultDropped(results, id) == results

\* lines 694-712: the tool_result block that carries the error message
ErrorResult(results, id) == Append(results, ToolResultBlock(id, "error"))

\* lines 717-742: the tool_result block of a result that has content
ContentResult(results, id) == Append(results, ToolResultBlock(id, "result"))

\* the loop goes on to the next tool call, or the invocation ends
Continue(content, results, errv, inv, outs, evs) ==
  IF idx = Len(message.toolCalls)
  THEN /\ EndRound(message, content, results, inv, outs, evs)
       /\ UNCHANGED <<nextId, completions>>
  ELSE /\ idx' = idx + 1
       /\ messageContent' = content
       /\ toolResults' = results
       /\ err' = errv
       /\ invoked' = inv
       /\ outcomes' = outs
       /\ events' = evs
       /\ UNCHANGED <<messages, pc, prompt, message, backoff, retries, nextId,
                      completions, round, ret, entry, attempts, sleeps, last>>

\* lines 640-743: one pass of the loop over message.GetToolCalls().  The arguments
\* are a map decoded from the provider's JSON; json.Marshal of it (line 643) and
\* json.Unmarshal of the bytes into a map (lines 676-680) succeed, so the
\* "Error parsing tool arguments" branch is never taken and is left out.
\* The callback returns c to the calls of lines 692 and 701.
ToolCallReturning(c) ==
  /\ pc = "tools"
  /\ Proceeds(c)
  /\ \E r \in {"error", "content", "no_content", "notrun"} :
       LET call     == message.toolCalls[idx]
           content  == Append(messageContent, ToolUseBlock(call.id))
           parts    == Split(call.name, Separator)
           toolName == parts[2]
           runs     == CallbackRunsTool(toolName, r # "notrun")
           errv     == IF runs THEN (IF r = "error" THEN "tool" ELSE "nil") ELSE err
           inv      == IF runs THEN Append(invoked, call.id) ELSE invoked
           evs      == Append(events, [mode |-> MODE_RUN_TOOL, id |-> call.id])
           evsErr   == Append(evs, [mode |-> MODE_ERROR, id |-> call.id])
           called   == ValidToolName(parts) /\ ServerFound(parts[1])
           failed   == called /\ toolName # <<>> /\ r = "notrun"
       IN /\ failed => spinnerFailures < MaxSpinnerFailures
          /\ (called /\ runs /\ CallToolContextDone(cancelled)) => r = "error"
          /\ spinnerFailures' = IF failed THEN spinnerFailures + 1 ELSE spinnerFailures
          /\ IF ~ValidToolName(parts)
             THEN Continue(content, toolResults, err, invoked,
                           Append(outcomes, "malformed"), events)
             ELSE IF ~ServerFound(parts[1])
             THEN Continue(content, toolResults, err, invoked,
                           Append(outcomes, "noserver"), events)
             ELSE IF errv # "nil"
             THEN Continue(content, ErrorResult(toolResults, call.id), errv, inv,
                           Append(outcomes, IF runs THEN "error" ELSE "stale_error"), evsErr)
             ELSE IF ~runs
             THEN /\ Panic(message, errv, attempts, inv, Append(outcomes, "panic"), evs)
                  /\ messageContent' = content
             ELSE IF r = "content"
             THEN Continue(content, ContentResult(toolResults, call.id), errv, inv,
                           Append(outcomes, "result"), evs)
             ELSE Continue(content, toolResults, errv, inv,
                           Append(outcomes, "no_content"), evs)
  /\ UNCHANGED <<messageWindow, pruned, repruned, cancelled>>

\* lines 350-359, 368: the callback of runMCPHost returns nil in MODE_RUN_TOOL and
\* in MODE_ERROR
ToolCall == ToolCallReturning("nil")

(***************************************************************************)
(* The context.  The command gives runMCPHost context.Background() (line   *)
(* 65), which is never done: that is Spec, below.  RunPrompt is exported   *)
(* and takes ctx from its caller, who can cancel it while RunPrompt waits: *)
(* for the provider (pc = "create"), in time.Sleep (pc = "sleep"), or for  *)
(* the tool call at idx (pc = "tools"): that is SpecCancel.  RunPrompt     *)
(* hands ctx to the callback and to Provider.CreateMessage and never reads *)
(* ctx.Done() or ctx.Err() itself.  What a provider does with a ctx that   *)
(* is done is not constrained: it can still return any of its results.     *)
(***************************************************************************)
Cancel ==
  /\ cancelled = NotCancelled
  /\ pc \in {"create", "sleep", "tools"}
  /\ cancelled' = [at |-> pc, round |-> round, idx |-> idx, attempts |-> Len(attempts)]
  /\ UNCHANGED <<messageWindow, messages, pc, pruned, repruned, prompt, message, err,
                 backoff, retries, messageContent, toolResults, idx, nextId,
                 completions, spinnerFailures, round, ret, obsVars>>

Next == UserPrompt \/ UserAbort \/ CreateMessage \/ Sleep \/ ToolCall

Spec == Init /\ [][Next]_vars

\* the steps of RunPrompt under a callback whose every call returns c
NextReturning(c) ==
  UserPromptReturning(c) \/ UserAbort \/ CreateMessageReturning(c) \/ Sleep
    \/ ToolCallReturning(c)

NextCancel == Next \/ Cancel

SpecCancel == Init /\ [][NextCancel]_vars

(***************************************************************************)
(* Properties.                                                             *)
(***************************************************************************)
\* the ids of the tool_use blocks, and the ids the tool_result blocks name
HasBlock(msgs, type, i) ==
  \E m \in 1..Len(msgs) : \E j \in 1..Len(msgs[m].Content) :
    msgs[m].Content[j].type = type /\ msgs[m].Content[j].id = i
UseIdsIn(msgs) == { i \in Ids : HasBlock(msgs, "tool_use", i) }
ResultIdsIn(msgs) == { i \in Ids : HasBlock(msgs, "tool_result", i) }

\* no tool_result without its tool_use and no tool_use without its tool_result
NoOrphans(msgs) == UseIdsIn(msgs) = ResultIdsIn(msgs)

\* the last n messages
LastN(msgs, n) == [i \in 1..n |-> msgs[Len(msgs) - n + i]]

\* C1 as stated: whatever the history and the window, the sequence pruneMessages
\* returns holds no tool_result block without its tool_use block and no tool_use
\* block without its tool_result block.
C1_NoOrphansAnyHistory ==
  pc \in {"pruned", "repruned"} => NoOrphans(pruned)

\* C1, amended: when the history has more messages than the window, or holds no
\* orphaned block itself, the sequence pruneMessages returns holds no tool_result
\* block without its tool_use block and no tool_use block without its tool_result
\* block.
C1_NoOrphansAfterTrim ==
  (pc \in {"pruned", "repruned"} /\ (Len(messages) > messageWindow \/ NoOrphans(messages)))
    => NoOrphans(pruned)

\* a history longer than the window whose kept messages hold an orphaned block
\* and a tool_use block that survives with its result
C1_Witness ==
  /\ pc = "pruned"
  /\ Len(messages) > messageWindow
  /\ ~NoOrphans(LastN(messages, messageWindow))
  /\ UseIdsIn(pruned) # {}

\* C6: pruning is idempotent: pruneMessages applied to its own result returns it
\* unchanged.
C6_PruneIdempotent ==
  pc = "repruned" => repruned = pruned

\* pruning dropped messages and blocks, and pruning the result again was computed
C6_Witness ==
  /\ pc = "repruned"
  /\ Len(messages) > messageWindow
  /\ Len(pruned) > 0
  /\ Len(pruned) < messageWindow
  /\ repruned = pruned

(***************************************************************************)
(* Properties of the retry loop.                                           *)
(***************************************************************************)
\* every pass of the retry loop so far issued the request and got an overload error
AllOverloaded == \A i \in 1..Len(attempts) : attempts[i] = "overloaded"

\* C2: against a provider that fails every attempt with an overload error, the sleeps
\* are 1, 2, 4, 8, 16 in that order, none above the cap; the provider is called 6
\* times; the 6th failure returns the terminal overloaded error, with no 6th sleep.
C2_BackoffSequence ==
  AllOverloaded =>
    /\ Len(attempts) <= 6
    /\ Len(sleeps) <= 5
    /\ sleeps = SubSeq(<<1, 2, 4, 8, 16>>, 1, Len(sleeps))
    /\ \A i \in 1..Len(sleeps) : sleeps[i] <= maxBackoff
    /\ pc = "create" => Len(sleeps) = Len(attempts)
    /\ pc = "sleep" => Len(sleeps) = Len(attempts) - 1
    /\ Len(attempts) = 6 =>
         /\ pc = "exit"
         /\ ret = "overloaded_terminal"
         /\ sleeps = <<1, 2, 4, 8, 16>>
    /\ ret = "overloaded_terminal" => Len(attempts) = 6

\* six overload errors in a row ended the call
C2_Witness ==
  /\ AllOverloaded
  /\ Len(attempts) = 6
  /\ ret = "overloaded_terminal"

\* C10: a provider call that fails with an error that is no overload error is the
\* last attempt: RunPrompt returns that error, without a sleep after it and without
\* another provider call, whatever the retry count.
C10_OtherErrorNoRetry ==
  \A i \in 1..Len(attempts) :
    attempts[i] = "other" =>
      /\ i = Len(attempts)
      /\ pc = "exit"
      /\ ret = "other"
      /\ Len(sleeps) = i - 1
      /\ retries = i - 1

\* an error that is no overload error came after two retries
C10_Witness ==
  /\ ret = "other"
  /\ retries = 2
  /\ attempts = <<"overloaded", "overloaded", "other">>

\* the completion of the current invocation has failed for good
CompletionFailed ==
  \/ (attempts # <<>> /\ attempts[Len(attempts)] = "other")
  \/ (Len(attempts) = maxRetries + 1 /\ err = "overloaded")

\* C9: when the completion of a round fails, RunPrompt returns the error at once and
\* appends neither an assistant message nor a tool message: the history is the one
\* the round started its completion with (user prompt and earlier rounds included).
C9_FailedCompletionLeavesHistory ==
  /\ CompletionFailed =>
       /\ pc = "exit"
       /\ last.kind = "failed"
       /\ ret \in {"other", "overloaded_terminal"}
       /\ ret = "other" <=> err = "other"
       /\ messages = entry
       /\ messageContent = <<>> /\ toolResults = <<>>
  /\ last.kind = "failed" => (CompletionFailed /\ messages = last.entry)

\* the completion of a follow-up round failed, after a round that ran a tool
C9_Witness ==
  /\ last.kind = "failed"
  /\ round = 2
  /\ ResultIdsIn(messages) # {}
  /\ messages[Len(messages)].Role = "tool"

(***************************************************************************)
(* Properties of the rounds.  They are stated of the state in which an     *)
(* invocation of RunPrompt has just ended: `last` records its completion   *)
(* and what it did, `messages` is the history it left.                     *)
(***************************************************************************)
\* the invocation that has just ended got a completion and reached line 745
RoundEnded == last.kind \in {"settled", "recursed"}

\* the tool calls of the completion of that invocation
LastCalls == last.message.toolCalls

\* the messages that invocation appended after its completion returned
Appended == SubSeq(messages, Len(last.entry) + 1, Len(messages))

\* the history that invocation started its completion with is still there
EntryKept == SubSeq(messages, 1, Len(last.entry)) = last.entry

\* C4: when the completion has no tool calls, RunPrompt returns nil without calling
\* itself (no further provider request in the turn), and the round has added one
\* assistant message to the history and no tool message.
C4_NoToolCallsSettles ==
  (RoundEnded /\ Len(LastCalls) = 0) =>
    /\ last.kind = "settled"
    /\ pc = "prompt"
    /\ ret = "nil"
    /\ round = last.round
    /\ attempts = <<>>
    /\ EntryKept
    /\ Len(Appended) = 1
    /\ Appended[1].Role = "assistant"
    /\ \A j \in 1..Len(Appended[1].Content) : Appended[1].Content[j].type = "text"

\* the follow-up round of a turn got a completion without tool calls
C4_Witness ==
  /\ RoundEnded
  /\ Len(LastCalls) = 0
  /\ last.round = 2
  /\ last.message.content = "answer"
  /\ pc = "prompt"

\* C3: when the completion requests n >= 1 tool calls and every one is dispatched and
\* returns a result, the calls are invoked one after the other in the order of the
\* completion, n tool messages are appended in that order, and then RunPrompt calls
\* itself, once.
C3_ToolCallsInOrder ==
  /\ (RoundEnded /\ Len(LastCalls) >= 1
        /\ \A i \in 1..Len(LastCalls) : last.outcomes[i] = "result") =>
       /\ Len(last.outcomes) = Len(LastCalls)
       /\ last.invoked = [i \in 1..Len(LastCalls) |-> LastCalls[i].id]
       /\ EntryKept
       /\ Len(Appended) = 1 + Len(LastCalls)
       /\ Appended[1].Role = "assistant"
       /\ \A i \in 1..Len(LastCalls) :
            /\ Appended[1 + i].Role = "tool"
            /\ Len(Appended[1 + i].Content) = 1
            /\ Appended[1 + i].Content[1].type = "tool_result"
            /\ Appended[1 + i].Content[1].id = LastCalls[i].id
       /\ last.kind = "recursed"
       /\ pc = "create"
       /\ prompt = ""
       /\ round = last.round + 1
       /\ attempts = <<>>
  /\ pc = "tools" =>
       /\ Len(outcomes) = idx - 1
       /\ messages = entry
       /\ \A k \in 1..Len(invoked) : \E i \in 1..(idx - 1) :
            /\ message.toolCalls[i].id = invoked[k]
            /\ \A k2 \in 1..(k - 1) : invoked[k2] < invoked[k]

\* a completion with two tool calls, both of which returned a result
C3_Witness ==
  /\ RoundEnded
  /\ Len(LastCalls) = 2
  /\ last.outcomes = <<"result", "result">>
  /\ pc = "create"

\* the names that do not split into two parts: "n" and "s__t__u"
MalformedNames == { <<"n">>, <<"s", "_", "_", "t", "_", "_", "u">> }
\* the name of a tool of the connected server: "s__t"
RoutedName == <<"s", "_", "_", "t">>

\* C5: a tool call whose name does not split into two parts is skipped: it is not
\* invoked, gets no result, and RunPrompt goes on; the other tool calls of the round,
\* before and after it, are processed, and those of the connected server are invoked
\* (unless the spinner failed to run the action).
C5_MalformedNameSkipped ==
  /\ (pc = "tools" /\ idx > 1 /\ message.toolCalls[idx - 1].name \in MalformedNames) =>
       /\ outcomes[idx - 1] = "malformed"
       /\ ret = "running"
       /\ \A k \in 1..Len(invoked) : invoked[k] # message.toolCalls[idx - 1].id
       /\ \A k \in 1..Len(toolResults) : toolResults[k].id # message.toolCalls[idx - 1].id
  /\ RoundEnded =>
       /\ Len(last.outcomes) = Len(LastCalls)
       /\ \A i \in 1..Len(LastCalls) :
            /\ LastCalls[i].name \in MalformedNames =>
                 /\ last.outcomes[i] = "malformed"
                 /\ \A k \in 1..Len(last.invoked) : last.invoked[k] # LastCalls[i].id
                 /\ ~HasBlock(Appended, "tool_result", LastCalls[i].id)
            /\ (LastCalls[i].name = RoutedName /\ last.outcomes[i] # "stale_error") =>
                 \E k \in 1..Len(last.invoked) : last.invoked[k] = LastCalls[i].id
  /\ (last.kind = "panic" /\ last.outcomes # <<>>) =>
       last.message.toolCalls[Len(last.outcomes)].name \notin MalformedNames

\* a round whose first call has a malformed name and whose second call was invoked
C5_Witness ==
  /\ RoundEnded
  /\ Len(LastCalls) = 2
  /\ LastCalls[1].name \in MalformedNames
  /\ LastCalls[2].name = RoutedName
  /\ last.invoked = <<LastCalls[2].id>>

\* C7: when the invocation of a routed tool fails, a tool_result block with the id of
\* the call and the error text is collected and appended as a tool message, the
\* callback gets an error event, the other tool calls of the round still run, and
\* RunPrompt does not return the tool error: it returns an error only from its
\* completion.
C7_ToolErrorIsData ==
  /\ pc = "tools" =>
       \A i \in 1..Len(outcomes) : outcomes[i] = "error" =>
         /\ \E k \in 1..Len(toolResults) :
              toolResults[k] = ToolResultBlock(message.toolCalls[i].id, "error")
         /\ \E k \in 1..Len(events) :
              events[k] = [mode |-> MODE_ERROR, id |-> message.toolCalls[i].id]
         /\ ret = "running"
  /\ RoundEnded =>
       \A i \in 1..Len(LastCalls) : last.outcomes[i] = "error" =>
         /\ \E k \in 2..Len(Appended) :
              Appended[k] = HistoryMessage("tool",
                              <<ToolResultBlock(LastCalls[i].id, "error")>>)
         /\ \E k \in 1..Len(last.events) :
              last.events[k] = [mode |-> MODE_ERROR, id |-> LastCalls[i].id]
         /\ Len(last.outcomes) = Len(LastCalls)
         /\ last.kind = "recursed"
         /\ ret = "running"
  /\ ret \in {"other", "overloaded_terminal"} =>
       (last.kind = "failed" /\ err \in {"other", "overloaded"} /\ outcomes = <<>>)
  /\ ret \in {"none", "running", "nil", "other", "overloaded_terminal", "panic"}

\* a round whose first tool call failed and whose second tool call returned a result
C7_Witness ==
  /\ RoundEnded
  /\ Len(LastCalls) = 2
  /\ last.outcomes = <<"error", "result">>
  /\ last.invoked = <<LastCalls[1].id, LastCalls[2].id>>

\* the name of a tool of a server that is not connected: "x__t"
UnroutedName == <<"x", "_", "_", "t">>

\* C8: a tool call whose server is not among the connected servers gets a
\* tool_result block with the error text, appended to the history as a tool message
\* for the id of the call, and the turn goes on.
C8_UnknownServerGetsResult ==
  RoundEnded =>
    \A i \in 1..Len(LastCalls) : LastCalls[i].name = UnroutedName =>
      HasBlock(Appended, "tool_result", LastCalls[i].id)

(***************************************************************************)
(* Properties of the continuation of a turn.                               *)
(***************************************************************************)
\* C11: in every round in which at least one tool invocation was executed, whatever
\* the tool returned, RunPrompt calls itself: the follow-up invocation has an empty
\* prompt, no user message was appended, and its completion is requested on the
\* history that the round left.
C11_RecursesWheneverToolRan ==
  (RoundEnded /\ last.invoked # <<>>) =>
    /\ last.kind = "recursed"
    /\ pc = "create"
    /\ prompt = ""
    /\ round = last.round + 1
    /\ entry = messages
    /\ \A k \in 1..Len(Appended) : Appended[k].Role # "user"

\* C12: the number of completion rounds of one turn stays under a maximum that is
\* not the provider's: whatever the provider asks for, the turn stops before the
\* provider has been asked MaxCompletions times in it.
C12_RoundsCapped ==
  round < MaxCompletions

\* C13: every completion request, the first of a turn and every follow-up after tool
\* results, carries a history that pruneMessages has been applied to: the history
\* the invocation gives to the provider holds at most messageWindow messages.
C13_RequestCarriesPrunedHistory ==
  pc \in {"create", "sleep"} =>
    /\ Len(entry) <= messageWindow
    /\ pruneMessages(entry) = entry

\* every tool_result block of msgs names the id of a tool_use block of an earlier
\* message of msgs
ResultsReferenceEarlierUse(msgs) ==
  \A m \in 1..Len(msgs) : \A j \in 1..Len(msgs[m].Content) :
    msgs[m].Content[j].type = "tool_result" =>
      HasBlock(SubSeq(msgs, 1, m - 1), "tool_use", msgs[m].Content[j].id)

\* C14: after any sequence of turns, each preceded by pruning, with the provider
\* handing out tool-call ids that are unique in the session, every tool_result block
\* of the history names the id of a tool_use block in an earlier message of the
\* history.
C14_ResultReferencesEarlierUse ==
  ResultsReferenceEarlierUse(messages)

\* a turn that began with a trimmed history has appended a tool result and ended
C14_Witness ==
  /\ pc = "prompt"
  /\ Len(messages) > 0
  /\ messages[1].Role = "assistant"
  /\ ResultIdsIn(messages) # {}

(***************************************************************************)
(* Properties of cancellation (SpecCancel).                                *)
(***************************************************************************)
\* C15: when ctx is cancelled while RunPrompt sleeps in a backoff, the sleep is
\* interrupted and RunPrompt returns an error without another request to the
\* provider: from the cancellation on, RunPrompt is either still in that sleep or
\* has returned, with the attempts it had made when ctx was cancelled.
C15_SleepInterruptedByCancel ==
  cancelled.at = "sleep" =>
    /\ Len(attempts) = cancelled.attempts
    /\ \/ (pc = "sleep" /\ round = cancelled.round)
       \/ (pc = "exit" /\ ret \notin {"none", "running", "nil"})

\* how a tool call that was aborted, or never invoked, ends
NotCompleted == {"error", "stale_error", "malformed", "noserver", "panic"}

\* C16: a tool invocation runs under ctx: when ctx is cancelled while the tool call
\* at idx is in flight, that invocation is aborted with an error; it does not run to
\* completion and return a result.
C16_ToolAbortedByCancel ==
  cancelled.at = "tools" =>
    /\ (pc = "tools" /\ round = cancelled.round /\ idx > cancelled.idx) =>
         outcomes[cancelled.idx] \in NotCompleted
    /\ (RoundEnded /\ last.round = cancelled.round) =>
         last.outcomes[cancelled.idx] \in NotCompleted

(***************************************************************************)
(* Properties of the callback.                                             *)
(***************************************************************************)
\* C17: the values the callback returns never alter control flow: every step the
\* program takes is the step it takes whatever the callback returned in it, so two
\* runs that differ only in these values go through the same states and end with
\* the same returned result and the same history.
C17_CallbackReturnIgnored ==
  [][\A c \in CallbackReturns : NextReturning(c)]_vars

\* a round that called the callback to run a tool and to report its error has ended,
\* and RunPrompt has called itself
C17_Witness ==
  /\ last.kind = "recursed"
  /\ \E k \in 1..Len(last.events) : last.events[k].mode = MODE_ERROR
  /\ \E k \in 1..Len(last.events) : last.events[k].mode = MODE_ASSISTANT_MESSAGE
  /\ ret = "running"

(***************************************************************************)
(* Properties of what pruneMessages keeps (SpecPrune).                     *)
(***************************************************************************)
\* the messages of the window
Window == LastN(messages, messageWindow)

\* the blocks of msg that are no orphans among the messages of `kept`
SurvivingBlocks(msg, kept) ==
  SelectSeq(msg.Content,
            LAMBDA b : \/ b.type = "text"
                       \/ (b.type = "tool_use" /\ HasBlock(kept, "tool_result", b.id))
                       \/ (b.type = "tool_result" /\ HasBlock(kept, "tool_use", b.id)))

\* does msg have a block of type text
HadText(msg) == \E j \in 1..Len(msg.Content) : msg.Content[j].type = "text"

\* the claim's rule for a message of the window
Stays(msg, kept) ==
  IF msg.Role = "assistant" THEN Len(SurvivingBlocks(msg, kept)) > 0
  ELSE Len(SurvivingBlocks(msg, kept)) > 0 \/ HadText(msg)

\* an assistant message all of whose blocks are tool_use blocks without a
\* tool_result block among the messages of `kept`
OnlyOrphanedUses(msg, kept) ==
  /\ msg.Role = "assistant"
  /\ Len(msg.Content) > 0
  /\ \A j \in 1..Len(msg.Content) :
       /\ msg.Content[j].type = "tool_use"
       /\ ~HasBlock(kept, "tool_result", msg.Content[j].id)

\* C18: when pruneMessages trims, its output is the messages of the window that stay,
\* in order, each with its surviving blocks: an assistant message stays when a block
\* of it survives, any other message when a block of it survives or it had a text
\* block.  So no assistant message of the output is empty, and the output is empty
\* when every message of the window holds only orphaned tool_use blocks.
C18_EmptiedAssistantDropped ==
  (pc \in {"pruned", "repruned"} /\ Len(messages) > messageWindow) =>
    LET staying == SelectSeq(Window, LAMBDA m : Stays(m, Window))
    IN /\ pruned = [i \in 1..Len(staying) |->
                      HistoryMessage(staying[i].Role, SurvivingBlocks(staying[i], Window))]
       /\ \A k \in 1..Len(pruned) :
            pruned[k].Role = "assistant" => Len(pruned[k].Content) > 0
       /\ (\A i \in 1..messageWindow : OnlyOrphanedUses(Window[i], Window)) =>
            pruned = <<>>

\* the window holds an assistant message with nothing but an orphaned tool_use block
\* and a message that stays: the output is the second one alone
C18_Witness ==
  /\ pc = "pruned"
  /\ Len(messages) > messageWindow
  /\ \E i \in 1..messageWindow : OnlyOrphanedUses(Window[i], Window)
  /\ Len(pruned) = 1
  /\ messageWindow = 2

\* C19: when the history holds at most messageWindow messages, pruneMessages returns
\* it unchanged: the same messages, in the same order, with the same blocks.
C19_ShortHistoryUnchanged ==
  (pc \in {"pruned", "repruned"} /\ Len(messages) <= messageWindow) =>
    pruned = messages

\* a history as long as the window that holds an orphaned block came back unchanged
C19_Witness ==
  /\ pc = "pruned"
  /\ Len(messages) = messageWindow
  /\ ~NoOrphans(messages)
  /\ pruned = messages

(***************************************************************************)
(* Properties of the messages a round appends.                             *)
(***************************************************************************)
\* the position in the completion of the tool call with id i
CallPosition(i) == CHOOSE n \in 1..Len(LastCalls) : LastCalls[n].id = i

\* C20: a round whose completion succeeded appends exactly one assistant message,
\* built from the completion (its text, if any, then one tool_use block per tool
\* call), and after it the tool messages of the round in the order of the tool
\* calls; each tool message holds exactly one block, a tool_result block that names
\* the id of a tool_use block of that assistant message.
C20_AssistantThenToolMessages ==
  RoundEnded =>
    /\ EntryKept
    /\ Len(Appended) >= 1
    /\ Appended[1].Role = "assistant"
    /\ Appended[1].Content =
         (IF last.message.content # "" THEN <<TextBlock(last.message.content)>> ELSE <<>>)
           \o [i \in 1..Len(LastCalls) |-> ToolUseBlock(LastCalls[i].id)]
    /\ \A k \in 2..Len(Appended) :
         /\ Appended[k].Role = "tool"
         /\ Len(Appended[k].Content) = 1
         /\ Appended[k].Content[1].type = "tool_result"
         /\ \E j \in 1..Len(Appended[1].Content) :
              /\ Appended[1].Content[j].type = "tool_use"
              /\ Appended[1].Content[j].id = Appended[k].Content[1].id
    /\ \A k1, k2 \in 2..Len(Appended) :
         k1 < k2 => CallPosition(Appended[k1].Content[1].id)
                      < CallPosition(Appended[k2].Content[1].id)

\* a round with text and two tool calls has appended its three messages
C20_Witness ==
  /\ RoundEnded
  /\ last.message.content = "answer"
  /\ Len(LastCalls) = 2
  /\ Len(Appended) = 3

(***************************************************************************)
(* Properties of the history during and after the tool-call loop.          *)
(***************************************************************************)
\* what the current invocation has appended to the history since its completion
AppendedSoFar == SubSeq(messages, Len(entry) + 1, Len(messages))

\* C21: within a round the tool message of a result is appended at once, before the
\* next tool call of the round is dispatched: when the tool call at idx is about to
\* be dispatched, the history holds the tool messages of the results collected from
\* the calls before it, in the order collected.
C21_ToolMessageAppendedAtOnce ==
  pc = "tools" =>
    /\ Len(AppendedSoFar) >= Len(toolResults)
    /\ \A k \in 1..Len(toolResults) :
         \E n \in 1..Len(AppendedSoFar) :
           AppendedSoFar[n] = HistoryMessage("tool", <<toolResults[k]>>)

\* every tool_use block of msgs has a tool_result block of the same id in a later
\* message of msgs
UsesHaveLaterResult(msgs) ==
  \A m \in 1..Len(msgs) : \A j \in 1..Len(msgs[m].Content) :
    msgs[m].Content[j].type = "tool_use" =>
      HasBlock(SubSeq(msgs, m + 1, Len(msgs)), "tool_result", msgs[m].Content[j].id)

\* C22: when RunPrompt requests a follow-up completion, and when the turn settles,
\* every tool_use block the round has appended has a tool_result block of the same
\* id in a later message: no tool call of a round is left without a result block.
C22_EveryUseHasResult ==
  RoundEnded => UsesHaveLaterResult(Appended)

(***************************************************************************)
(* Properties of the retry state across the invocations of a turn.         *)
(***************************************************************************)
\* min(2^n, maxBackoff), for the n of a retry loop
RECURSIVE BackoffAfter(_)
BackoffAfter(n) == IF n = 0 THEN initialBackoff ELSE NextBackoff(BackoffAfter(n - 1))

\* C23: the retry state belongs to one invocation of the completion loop.  Every
\* invocation, the recursive ones for follow-up rounds included, enters its loop
\* with retries = 0 and backoff = initialBackoff; while the loop runs, retries
\* counts the sleeps of this invocation only and backoff is the value that follows
\* from them; and the terminal overload error is returned only after this
\* invocation itself slept maxRetries times.
C23_RetryStatePerCall ==
  /\ (pc = "create" /\ attempts = <<>>) =>
       (retries = 0 /\ backoff = initialBackoff)
  /\ pc \in {"create", "sleep"} =>
       /\ retries = Len(sleeps)
       /\ backoff = BackoffAfter(retries)
       /\ (pc = "sleep" => retries < maxRetries)
  /\ (last.kind = "failed" /\ last.ret = "overloaded_terminal") =>
       (retries = maxRetries /\ Len(sleeps) = maxRetries)

\* a follow-up invocation has just been entered with fresh retry state, after an
\* invocation whose loop had retried
C23_Witness ==
  /\ last.kind = "recursed"
  /\ last.retried
  /\ round = 2
  /\ pc = "create"
  /\ retries = 0
  /\ backoff = initialBackoff

(***************************************************************************)
(* Properties of a pass of the retry loop and its callback.                *)
(***************************************************************************)
\* C24: on every pass of the retry loop the request to the provider is issued,
\* and what the pass does next is decided by the outcome of that request: a
\* callback that fails neither suppresses the request nor makes the outcome of an
\* earlier pass count again (the loop sleeps only after a pass whose own request
\* was answered with an overload).
C24_EachAttemptDecidedByOwnRequest ==
  /\ \A i \in 1..Len(attempts) : attempts[i] # NotRun.kind
  /\ pc = "sleep" => attempts[Len(attempts)] = "overloaded"

(***************************************************************************)
(* Properties of the history over the steps of a turn.                     *)
(***************************************************************************)
\* a is an initial part of b
IsPrefix(a, b) == Len(a) <= Len(b) /\ SubSeq(b, 1, Len(a)) = a

\* C25: while a turn runs, RunPrompt changes the history only by appending at its
\* tail.  Every step taken inside RunPrompt leaves the messages the history held
\* before the step in place, unchanged and in order, and the step that enters
\* RunPrompt does so for the history runMCPHost hands it.
C25_HistoryOnlyAppended ==
  [][ /\ pc \in {"create", "sleep", "tools"} => IsPrefix(messages, messages')
      /\ (pc = "prompt" /\ pc' = "create") =>
           IsPrefix(PruneBeforeTurn(messages), messages') ]_vars

\* a turn in its second invocation: the first one appended an assistant message and
\* tool messages behind the history it was entered with
C25_Witness ==
  /\ last.kind = "recursed"
  /\ pc = "create"
  /\ Len(last.entry) >= 1
  /\ Len(messages) >= Len(last.entry) + 2
  /\ IsPrefix(last.entry, messages)

(***************************************************************************)
(* Properties of the end of a turn.                                        *)
(***************************************************************************)
\* C26: when every completion succeeds and every tool invocation returns, the turn
\* returns nil after one completion round per round of tool calls plus the final
\* one: every invocation whose completion asked for tools is followed by another
\* completion, so the invocation that settles the turn is the one whose completion
\* has no tool calls.
C26_SettlesAfterToolFreeCompletion ==
  (last.kind = "settled" /\ ret = "nil") => LastCalls = <<>>

(***************************************************************************)
(* Properties of the output of pruneMessages as a selection (SpecPrune).   *)
(***************************************************************************)
RECURSIVE IsSubseq(_, _)
\* a is b with some of its elements left out
IsSubseq(a, b) ==
  IF a = <<>> THEN TRUE
  ELSE IF b = <<>> THEN FALSE
  ELSE IF Head(a) = Head(b) THEN IsSubseq(Tail(a), Tail(b))
  ELSE IsSubseq(a, Tail(b))

\* the text blocks of a sequence of blocks, in order
TextBlocks(blocks) == SelectSeq(blocks, LAMBDA b : b.type = "text")

\* C27: when the history is longer than the window, the output of pruneMessages is
\* an order-preserving selection from the last messageWindow messages only: it has
\* at most messageWindow messages, and its messages can be matched, in order, to
\* distinct messages of the window so that each has the role of its match, its
\* blocks are blocks of its match in their original order, and every text block of
\* its match is among them.
C27_OutputSelectsFromWindow ==
  (pc \in {"pruned", "repruned"} /\ Len(messages) > messageWindow) =>
    /\ Len(pruned) <= messageWindow
    /\ \E f \in [1..Len(pruned) -> 1..messageWindow] :
         /\ \A k \in 1..Len(pruned) : \A l \in 1..Len(pruned) : k < l => f[k] < f[l]
         /\ \A k \in 1..Len(pruned) :
              /\ pruned[k].Role = Window[f[k]].Role
              /\ IsSubseq(pruned[k].Content, Window[f[k]].Content)
              /\ TextBlocks(pruned[k].Content) = TextBlocks(Window[f[k]].Content)

\* a trimmed history whose output fills the window, with a message that lost a block
\* and kept its text
C27_Witness ==
  /\ pc = "pruned"
  /\ Len(messages) > messageWindow
  /\ Len(pruned) = messageWindow
  /\ \E k \in 1..messageWindow :
       /\ Len(pruned[k].Content) < Len(Window[k].Content)
       /\ TextBlocks(pruned[k].Content) # <<>>

====
